---- MODULE Spec2Model ----
(***************************************************************************)
(* State-machine model of ztunnel's TLS layer (src/tls/openssl.rs):        *)
(* the certificate bundle and its rotation arithmetic, the SAN             *)
(* verification policy, context construction, and the accept / connect     *)
(* handshake routines.                                                     *)
(*                                                                         *)
(* Time is counted in ticks; TicksPerSec ticks make one second, which is   *)
(* the resolution of the certificate's encoded (ASN.1) validity fields.    *)
(***************************************************************************)
EXTENDS Integers, Sequences, FiniteSets, TLC

VARIABLES
    certs,      \* the certificate bundle (Certs) in force
    now,        \* SystemTime::now(), in ticks since UNIX_EPOCH
    obs,        \* the last (at most two) polls of the bundle's lifecycle methods
    pc,         \* position of the connection's accept / connect routine
    role,       \* which routine handles the connection
    dest,       \* the dest_id argument given to connector()
    acceptor,   \* the accept future's clone of the certificate provider
    tls,        \* the TLS context built for the connection
    steps,      \* the steps the routine has attempted, in order
    stream,     \* where the connection's TcpStream handle is
    cb,         \* the last invocation of the verification callback
    hs,         \* outcome of the engine's handshake step
    result,     \* what the routine returned to its caller
    peer,       \* the certificate the peer of the handshake holds, if any
    tasks       \* the accept tasks of a listener serving several connections

vars == <<certs, now, obs, pc, role, dest, acceptor, tls, steps, stream, cb, hs, result,
          peer, tasks>>

----------------------------------------------------------------------------
(* Bounds of the model *)

\* Ticks per second: the sub-second resolution the model distinguishes.
TicksPerSec == 2
\* Largest clock value and validity bound, in ticks.
MaxTime == 7
\* Largest number of SAN entries on a peer's leaf certificate.
MaxSans == 2
\* Largest number of certificates in a bundle's chain.
MaxChain == 3
\* Number of accept tasks the listener runs side by side.
NumTasks == 2

----------------------------------------------------------------------------
(* Option and Result values *)

None == [tag |-> "None"]
Some(x) == [tag |-> "Some", val |-> x]
Ok(x) == [tag |-> "Ok", val |-> x]
Err(e) == [tag |-> "Err", err |-> e]
IsOk(r) == r.tag = "Ok"
IsErr(r) == r.tag = "Err"

Unit == "()"

----------------------------------------------------------------------------
(* Identity (crate::identity; its source is not part of the TLS layer)     *)

\* A URI is the sequence of its scheme and its path segments.
SpiffeUri(td, ns, sa) == <<"spiffe", td, "ns", ns, "sa", sa>>

UriA == SpiffeUri("cluster.local", "default", "a")
UriB == SpiffeUri("cluster.local", "default", "b")
UriC == SpiffeUri("cluster.local", "default", "c")
\* URIs that are no workload identity: another scheme, and a truncated path.
UriWeb == <<"https", "example.org">>
UriShort == <<"spiffe", "cluster.local", "ns", "default">>

\* Identity::from_str: spiffe://<trust domain>/ns/<namespace>/sa/<account>
Identity_from_str(uri) ==
    IF /\ Len(uri) = 6
       /\ uri[1] = "spiffe"
       /\ uri[3] = "ns"
       /\ uri[5] = "sa"
    THEN Ok([trust_domain |-> uri[2], namespace |-> uri[4], service_account |-> uri[6]])
    ELSE Err("Spiffe")

\* Display for Identity
Identity_to_string(id) == SpiffeUri(id.trust_domain, id.namespace, id.service_account)

IdA == Identity_from_str(UriA).val
IdB == Identity_from_str(UriB).val
IdC == Identity_from_str(UriC).val

----------------------------------------------------------------------------
(* Subject Alternative Names of an X509 leaf *)

UriSan(uri) == [kind |-> "uri", value |-> uri]
IpSan(ip) == [kind |-> "ip", value |-> <<ip>>]

\* GeneralName::uri(): Some for a URI-form name, None for any other form
GeneralName_uri(s) == IF s.kind = "uri" THEN Some(s.value) ELSE None

\* The SAN entries a peer's leaf certificate may carry.
SanEntries == {UriSan(UriA), UriSan(UriB), UriSan(UriWeb), UriSan(UriShort), IpSan("10.0.0.1")}

RECURSIVE SeqsUpTo(_, _)
SeqsUpTo(S, n) ==
    IF n = 0 THEN {<<>>}
    ELSE LET shorter == SeqsUpTo(S, n - 1)
         IN shorter \cup {Append(q, x) : q \in {r \in shorter : Len(r) = n - 1}, x \in S}

SanLists == SeqsUpTo(SanEntries, MaxSans)

\* filter_map(|s| s.uri()) over the SAN stack: the URI values, in order
RECURSIVE filter_map_uri(_)
filter_map_uri(sans) ==
    IF sans = <<>> THEN <<>>
    ELSE LET u == GeneralName_uri(Head(sans))
         IN IF u.tag = "Some" THEN <<u.val>> \o filter_map_uri(Tail(sans))
            ELSE filter_map_uri(Tail(sans))

\* collect::<Result<Vec<_>, _>>(): the values if every item is Ok, else the first Err
RECURSIVE collect_result(_)
collect_result(rs) ==
    IF rs = <<>> THEN Ok(<<>>)
    ELSE IF IsErr(Head(rs)) THEN Head(rs)
    ELSE LET rest == collect_result(Tail(rs))
         IN IF IsErr(rest) THEN rest ELSE Ok(<<Head(rs).val>> \o rest.val)

\* Result::unwrap_or_default() on a Result<Vec<_>, _>
unwrap_or_default(r) == IF IsOk(r) THEN r.val ELSE <<>>

\* extract_sans(cert: &X509Ref) -> Vec<Identity>
extract_sans(cert) ==
    LET uris == filter_map_uri(cert.sans)
        parsed == [i \in 1..Len(uris) |-> Identity_from_str(uris[i])]
    IN unwrap_or_default(collect_result(parsed))

\* a variant of verify_san that compares the required identity with the first SAN only
verify_san_first_only(cert, identity) ==
    LET sans == extract_sans(cert)
    IN IF sans # <<>> /\ sans[1] = identity
       THEN Ok(Unit)
       ELSE Err([kind |-> "SanError", expected |-> identity, actual |-> sans])

\* impl SanChecker for X509Ref: verify_san(&self, identity)
verify_san(cert, identity) ==
    LET sans == extract_sans(cert)
        found == {i \in 1..Len(sans) : sans[i] = identity}
    IN IF found # {}
       THEN Ok(Unit)
       ELSE Err([kind |-> "SanError", expected |-> identity, actual |-> sans])

----------------------------------------------------------------------------
(* Verifier: the verification policy bound to a context *)

VerifierNone == [v |-> "None"]
VerifierSan(identity) == [v |-> "San", identity |-> identity]

\* Verifier::base_verifier(verified, ctx)
base_verifier(verified, store_ctx) ==
    IF ~verified
    THEN Err([kind |-> "Verification", reason |-> store_ctx.error])
    ELSE Ok(Unit)

\* Verifier::verifiy_san(&self, ctx)
verifiy_san(self, store_ctx) ==
    IF self.v # "San" THEN Ok(Unit)
    ELSE IF store_ctx.chain.tag = "None" THEN Err([kind |-> "ExDataError"])
    ELSE IF store_ctx.chain.val = <<>> THEN Err([kind |-> "PeerCertError"])
    ELSE verify_san(store_ctx.chain.val[1], self.identity)

\* a variant of verify that checks the SAN before the engine's verdict
verify_san_first(self, verified, store_ctx) ==
    LET s == verifiy_san(self, store_ctx)
    IN IF IsErr(s)
       THEN [res |-> s, evaluated |-> <<"verifiy_san">>]
       ELSE [res |-> base_verifier(verified, store_ctx),
             evaluated |-> <<"verifiy_san", "base_verifier">>]

\* Verifier::verify(&self, verified, ctx): the result, and which checks ran
verify(self, verified, store_ctx) ==
    LET b == base_verifier(verified, store_ctx)
    IN IF IsErr(b)
       THEN [res |-> b, evaluated |-> <<"base_verifier">>]
       ELSE LET s == verifiy_san(self, store_ctx)
            IN [res |-> IF IsErr(s) THEN s ELSE Ok(Unit),
                evaluated |-> <<"base_verifier", "verifiy_san">>]

\* Verifier::callback(self): the closure handed to the engine
callback(self, verified, store_ctx) == IsOk(verify(self, verified, store_ctx).res)

----------------------------------------------------------------------------
(* Time conversion and the certificate bundle *)

\* asn1_time_to_system_time: whole seconds since the epoch, as a SystemTime
asn1_time_to_system_time(time) == time * TicksPerSec

\* system_time_to_asn1_time: as_secs() drops the sub-second part
system_time_to_asn1_time(time) ==
    IF time >= 0 THEN Some(time \div TicksPerSec) ELSE None

\* SystemTime::duration_since(earlier): Err when earlier is later than self
duration_since(self, earlier) ==
    IF self >= earlier THEN Ok(self - earlier) ELSE Err(earlier - self)

\* Duration::checked_sub
checked_sub(a, b) == IF a >= b THEN Some(a - b) ELSE None

\* ZtunnelCert::new(cert)
ZtunnelCert_new(cert) ==
    [x509 |-> cert,
     not_before |-> asn1_time_to_system_time(cert.not_before),
     not_after |-> asn1_time_to_system_time(cert.not_after)]

TEST_PKEY == "key.pem"
\* test_ca(): the fixed root certificate
TEST_ROOT == [subject |-> "root", sans |-> <<>>, not_before |-> 0, not_after |-> MaxTime]
IntermediateCert(i) == [subject |-> <<"intermediate", i>>, sans |-> <<>>,
                        not_before |-> 0, not_after |-> MaxTime]

\* TestIdentity: an Identity or an IP address
TestIdentity_Identity(id) == [t |-> "Identity", id |-> id]
TestIdentity_Ip(ip) == [t |-> "Ip", ip |-> ip]

\* generate_test_certs_at(id, not_before, not_after, rng)
generate_test_certs_at(id, not_before, not_after) ==
    LET san == IF id.t = "Identity" THEN UriSan(Identity_to_string(id.id)) ELSE IpSan(id.ip)
        built == [subject |-> "leaf", sans |-> <<san>>,
                  not_before |-> system_time_to_asn1_time(not_before).val,
                  not_after |-> system_time_to_asn1_time(not_after).val]
        cert == [ZtunnelCert_new(built) EXCEPT !.not_before = not_before,
                                               !.not_after = not_after]
    IN [cert |-> cert, key |-> TEST_PKEY, chain |-> <<ZtunnelCert_new(TEST_ROOT)>>]

\* cert_from(key, cert, chain)
cert_from(key, cert, chain) ==
    [cert |-> ZtunnelCert_new(cert),
     chain |-> [i \in 1..Len(chain) |-> ZtunnelCert_new(chain[i])],
     key |-> key]

\* a variant of is_expired that reads the certificate's encoded not_after
is_expired_encoded(self) == now > asn1_time_to_system_time(self.cert.x509.not_after)

\* Certs::is_expired
is_expired(self) == now > self.cert.not_after

\* a variant of refresh_at whose fallback is not_before
refresh_at_fallback_not_before(self) ==
    LET d == duration_since(self.cert.not_after, self.cert.not_before)
    IN IF IsOk(d) THEN self.cert.not_before + (d.val \div 2) ELSE self.cert.not_before

\* Certs::refresh_at
refresh_at(self) ==
    LET d == duration_since(self.cert.not_after, self.cert.not_before)
    IN IF IsOk(d) THEN self.cert.not_before + (d.val \div 2) ELSE self.cert.not_after

\* a variant of get_duration_until_refresh where a clock before not_before counts as
\* no time elapsed
get_duration_until_refresh_zero_elapsed(self) ==
    LET d == duration_since(self.cert.not_after, self.cert.not_before)
        halflife == (IF IsOk(d) THEN d.val ELSE 0) \div 2
        e == duration_since(now, self.cert.not_before)
        elapsed == IF IsOk(e) THEN e.val ELSE 0
        left == checked_sub(halflife, elapsed)
    IN IF left.tag = "Some" THEN left.val ELSE 0

\* a variant of get_duration_until_refresh that counts the whole validity window
get_duration_until_refresh_full_window(self) ==
    LET d == duration_since(self.cert.not_after, self.cert.not_before)
        window == IF IsOk(d) THEN d.val ELSE 0
        e == duration_since(now, self.cert.not_before)
        elapsed == IF IsOk(e) THEN e.val ELSE window
        left == checked_sub(window, elapsed)
    IN IF left.tag = "Some" THEN left.val ELSE 0

\* Certs::get_duration_until_refresh
get_duration_until_refresh(self) ==
    LET d == duration_since(self.cert.not_after, self.cert.not_before)
        halflife == (IF IsOk(d) THEN d.val ELSE 0) \div 2
        e == duration_since(now, self.cert.not_before)
        elapsed == IF IsOk(e) THEN e.val ELSE halflife
        left == checked_sub(halflife, elapsed)
    IN IF left.tag = "Some" THEN left.val ELSE 0

----------------------------------------------------------------------------
(* Context construction *)

\* Alpn::H2.encode()
Alpn_H2 == "\\x02h2"

\* SslContext::builder / SslAcceptor::mozilla_intermediate_v5 / SslConnector::builder:
\* a builder with nothing of the bundle installed and no verification callback
NewBuilder(method) ==
    [method |-> method, mode |-> {}, alpn |-> "", min_proto |-> None, max_proto |-> None,
     private_key |-> None, certificate |-> None, extra_chain |-> <<>>, cert_store |-> <<>>,
     verify_mode |-> IF method = "tls_client" THEN {"PEER"} ELSE {},
     verifier |-> [v |-> "Default"]]

\* a variant of verify_mode that does not insist on a peer certificate
verify_mode_peer_only == {"PEER"}

\* Certs::verify_mode()
verify_mode == {"PEER", "FAIL_IF_NO_PEER_CERT"}

\* a variant of the loop of setup_ctx that sends the last chain entry as well
RECURSIVE setup_ctx_chain_sends_all(_, _, _)
setup_ctx_chain_sends_all(self, conn, i) ==
    IF i >= Len(self.chain) THEN conn
    ELSE LET chain_cert == self.chain[i + 1]
             sent == IF i <= Len(self.chain) - 1
                     THEN [conn EXCEPT !.extra_chain = Append(@, chain_cert.x509)]
                     ELSE conn
             stored == [sent EXCEPT !.cert_store = Append(@, chain_cert.x509)]
         IN setup_ctx_chain_sends_all(self, stored, i + 1)

\* the loop of setup_ctx over self.chain, from index i (0-based) on
RECURSIVE setup_ctx_chain(_, _, _)
setup_ctx_chain(self, conn, i) ==
    IF i >= Len(self.chain) THEN conn
    ELSE LET chain_cert == self.chain[i + 1]
             sent == IF i < Len(self.chain) - 1
                     THEN [conn EXCEPT !.extra_chain = Append(@, chain_cert.x509)]
                     ELSE conn
             stored == [sent EXCEPT !.cert_store = Append(@, chain_cert.x509)]
         IN setup_ctx_chain(self, stored, i + 1)

\* Certs::setup_ctx(&self, conn); engine_ok: the engine accepts every parameter
setup_ctx(self, conn, engine_ok) ==
    IF ~engine_ok THEN Err([kind |-> "SslError"])
    ELSE LET general == [conn EXCEPT !.mode = {"ASYNC"},
                                     !.alpn = Alpn_H2,
                                     !.min_proto = Some("TLS1_3"),
                                     !.max_proto = Some("TLS1_3")]
             keyed == [general EXCEPT !.private_key = Some(self.key),
                                      !.certificate = Some(self.cert.x509)]
             chained == setup_ctx_chain(self, keyed, 0)
         IN Ok([chained EXCEPT !.verify_mode = verify_mode, !.verifier = VerifierNone])

\* Certs::mtls_acceptor
mtls_acceptor(self, engine_ok) ==
    setup_ctx(self, NewBuilder("tls_server"), engine_ok)

\* Certs::acceptor
acceptor_ctx(self, engine_ok) ==
    LET conn == setup_ctx(self, NewBuilder("tls_server"), engine_ok)
    IN IF IsErr(conn) THEN conn
       ELSE Ok([conn.val EXCEPT !.verify_mode = {}, !.verifier = VerifierNone])

\* a variant of connector that never installs the SAN policy
connector_no_san(self, dest_id, engine_ok) ==
    setup_ctx(self, NewBuilder("tls_client"), engine_ok)

\* Certs::connector(&self, dest_id)
connector(self, dest_id, engine_ok) ==
    LET conn == setup_ctx(self, NewBuilder("tls_client"), engine_ok)
    IN IF IsErr(conn) THEN conn
       ELSE IF dest_id.tag = "Some"
       THEN Ok([conn.val EXCEPT !.verify_mode = verify_mode,
                                !.verifier = VerifierSan(dest_id.val)])
       ELSE conn

\* ControlPlaneCertProvider::fetch_cert
fetch_cert(self, engine_ok) == acceptor_ctx(self.certs, engine_ok)

\* a certificate provider that asks for mutual TLS (a binding outside the TLS layer)
fetch_cert_mtls(self, engine_ok) == mtls_acceptor(self.certs, engine_ok)

----------------------------------------------------------------------------
(* Streams, errors and the outcome of the handshake routines *)

TcpStream == [handle |-> "TcpStream"]
SslStream(inner) == [handle |-> "SslStream", inner |-> inner]

\* HandshakeError<S>
HandshakeError_Ssl(s) == [variant |-> "Ssl", stream |-> Some(s)]
HandshakeError_Create == [variant |-> "Create", stream |-> None]
HandshakeError_Accept(s) == [variant |-> "Accept", stream |-> Some(s)]
HandshakeError_Connect(s) == [variant |-> "Connect", stream |-> Some(s)]

\* TlsError::Handshake(#[from] HandshakeError<TcpStream>)
TlsError_Handshake(e) == [kind |-> "Handshake", inner |-> e]

\* The stream handle an error value owns, if any.
StreamOf(e) ==
    IF "variant" \in DOMAIN e THEN e.stream
    ELSE IF e.kind = "Handshake" THEN e.inner.stream
    ELSE None

\* a variant of the accept routine's last match that returns the stream either way
accept_outcome_always_ok(wrapped, handshake_ok) == Ok(wrapped)

\* TlsAcceptor::accept, the match on Pin::new(&mut stream).accept().await
accept_outcome(wrapped, handshake_ok) ==
    IF handshake_ok THEN Ok(wrapped)
    ELSE Err(TlsError_Handshake(HandshakeError_Accept(wrapped)))

\* connect, the match on Pin::new(&mut stream).connect().await
connect_outcome(wrapped, handshake_ok) ==
    IF handshake_ok THEN Ok(wrapped)
    ELSE Err(HandshakeError_Connect(wrapped))

----------------------------------------------------------------------------
(* The state machine *)

NoCallback == [invoked |-> FALSE]

LeafCert == [subject |-> "leaf", sans |-> <<UriSan(UriA)>>,
             not_before |-> 0, not_after |-> MaxTime]
Chain(n) == [i \in 1..n |-> IF i < n THEN IntermediateCert(i) ELSE TEST_ROOT]

\* What the engine reports for a presented chain: X509VerifyResult, and `verified`.
Verdicts == {"OK", "CERT_HAS_EXPIRED", "UNABLE_TO_GET_ISSUER_CERT"}
\* X509StoreContextRef::chain(): unavailable, empty, or the chain with its leaf first
StoreChains(leaf) == {None, Some(<<>>), Some(<<leaf>>)}
PeerLeaf(sans) == [subject |-> "peer", sans |-> sans, not_before |-> 0, not_after |-> MaxTime]

\* What the peer of a handshake holds: no certificate, or a leaf and what the engine
\* will find when it validates its chain.
Peers == {[has_cert |-> FALSE]} \cup
         {[has_cert |-> TRUE, sans |-> sans, verdict |-> verdict] :
             sans \in SanLists, verdict \in Verdicts}

Tasks == 1..NumTasks
IdleTask == [pc |-> "idle"]

Providers == {"ControlPlane", "Mtls"}
DestIds == {None, Some(IdA), Some(IdC)}

Init ==
    /\ certs = cert_from(TEST_PKEY, LeafCert, Chain(1))
    /\ now = 0
    /\ obs = <<>>
    /\ pc = "idle"
    /\ role = "none"
    /\ dest = None
    /\ acceptor = None
    /\ tls = None
    /\ steps = <<>>
    /\ stream = "caller"
    /\ cb = NoCallback
    /\ hs = "unattempted"
    /\ result = None
    /\ peer = None
    /\ tasks = [t \in Tasks |-> IdleTask]

timeVars == <<now, obs>>
connVars == <<pc, role, dest, acceptor, tls, steps, stream, cb, hs, result, peer>>

\* The bundle is replaced wholesale by one built from key, certificate and chain bytes.
ReplaceCerts(n) ==
    /\ certs' = cert_from(TEST_PKEY, LeafCert, Chain(n))
    /\ certs' # certs
    /\ obs' = <<>>
    /\ UNCHANGED <<tasks, now, connVars>>

\* TlsAcceptor::accept(&self, conn): takes the stream, clones the provider and
\* returns the future
AcceptCall(kind) ==
    /\ pc = "idle"
    /\ role' = "accept"
    /\ acceptor' = Some([kind |-> kind, certs |-> certs])
    /\ stream' = "inner"
    /\ pc' = "accept_called"
    /\ UNCHANGED <<tasks, certs, timeVars, dest, tls, steps, cb, hs, result, peer>>

\* a variant of the accept future that asks the provider a second time when it fails
accept_future_retry(provider, ctx_ok, ssl_ok, wrap_ok) ==
    LET fetched == IF provider.kind = "ControlPlane"
                   THEN fetch_cert(provider, ctx_ok)
                   ELSE fetch_cert_mtls(provider, ctx_ok)
    IN IF IsErr(fetched)
       THEN [tls |-> None, result |-> Some(fetched), steps |-> <<"fetch_cert", "fetch_cert">>,
             stream |-> "dropped", pc |-> "done"]
       ELSE IF ~ssl_ok
       THEN [tls |-> Some(fetched.val),
             result |-> Some(Err(TlsError_Handshake(HandshakeError_Ssl(TcpStream)))),
             steps |-> <<"fetch_cert", "Ssl::new">>,
             stream |-> "error", pc |-> "done"]
       ELSE IF ~wrap_ok
       THEN [tls |-> Some(fetched.val),
             result |-> Some(Err(TlsError_Handshake(HandshakeError_Create))),
             steps |-> <<"fetch_cert", "Ssl::new", "SslStream::new">>,
             stream |-> "dropped", pc |-> "done"]
       ELSE [tls |-> Some(fetched.val), result |-> None,
             steps |-> <<"fetch_cert", "Ssl::new", "SslStream::new", "handshake">>,
             stream |-> "wrapped", pc |-> "handshaking"]

\* The accept future up to its handshake await: fetch_cert with the cloned provider,
\* Ssl::new, SslStream::new. Gives the context, the steps attempted, where the stream
\* is, and the outcome if the future has ended.
accept_future(provider, ctx_ok, ssl_ok, wrap_ok) ==
    LET fetched == IF provider.kind = "ControlPlane"
                   THEN fetch_cert(provider, ctx_ok)
                   ELSE fetch_cert_mtls(provider, ctx_ok)
    IN IF IsErr(fetched)
       THEN [tls |-> None, result |-> Some(fetched), steps |-> <<"fetch_cert">>,
             stream |-> "dropped", pc |-> "done"]
       ELSE IF ~ssl_ok
       THEN [tls |-> Some(fetched.val),
             result |-> Some(Err(TlsError_Handshake(HandshakeError_Ssl(TcpStream)))),
             steps |-> <<"fetch_cert", "Ssl::new">>,
             stream |-> "error", pc |-> "done"]
       ELSE IF ~wrap_ok
       THEN [tls |-> Some(fetched.val),
             result |-> Some(Err(TlsError_Handshake(HandshakeError_Create))),
             steps |-> <<"fetch_cert", "Ssl::new", "SslStream::new">>,
             stream |-> "dropped", pc |-> "done"]
       ELSE [tls |-> Some(fetched.val), result |-> None,
             steps |-> <<"fetch_cert", "Ssl::new", "SslStream::new", "handshake">>,
             stream |-> "wrapped", pc |-> "handshaking"]

\* The first poll of the accept future, which runs it up to its handshake await.
AcceptPoll(ctx_ok, ssl_ok, wrap_ok) ==
    /\ pc = "accept_called"
    /\ LET out == accept_future(acceptor.val, ctx_ok, ssl_ok, wrap_ok)
       IN /\ tls' = out.tls
          /\ result' = out.result
          /\ steps' = out.steps
          /\ stream' = out.stream
          /\ pc' = out.pc
          /\ IF out.pc = "handshaking" THEN \E p \in Peers : peer' = Some(p)
                                       ELSE UNCHANGED peer
    /\ UNCHANGED <<tasks, certs, timeVars, role, dest, acceptor, cb, hs>>

\* Certs::connector(dest_id), called by the client before it connects
Connector(dest_id, engine_ok) ==
    /\ pc = "idle"
    /\ role' = "connect"
    /\ dest' = dest_id
    /\ LET built == connector(certs, dest_id, engine_ok)
       IN IF IsErr(built)
          THEN /\ result' = Some(built)
               /\ pc' = "done"
               /\ UNCHANGED tls
          ELSE /\ tls' = Some(built.val)
               /\ pc' = "configured"
               /\ UNCHANGED result
    /\ UNCHANGED <<tasks, certs, timeVars, acceptor, steps, stream, cb, hs, peer>>

\* connect(config, domain, stream) up to its handshake await: into_ssl, SslStream::new
Connect(ssl_ok, wrap_ok) ==
    /\ pc = "configured"
    /\ IF ~ssl_ok
       THEN /\ result' = Some(Err(HandshakeError_Ssl(TcpStream)))
            /\ steps' = <<"into_ssl">>
            /\ stream' = "error"
            /\ pc' = "done"
       ELSE IF ~wrap_ok
       THEN /\ result' = Some(Err(HandshakeError_Create))
            /\ steps' = <<"into_ssl", "SslStream::new">>
            /\ stream' = "dropped"
            /\ pc' = "done"
       ELSE /\ result' = None
            /\ steps' = <<"into_ssl", "SslStream::new", "handshake">>
            /\ stream' = "wrapped"
            /\ pc' = "handshaking"
    /\ IF pc' = "handshaking" THEN \E p \in Peers : peer' = Some(p) ELSE UNCHANGED peer
    /\ UNCHANGED <<tasks, certs, timeVars, role, dest, acceptor, tls, cb, hs>>

\* The engine asks for the peer's certificate: always as a client, and as a server
\* when the context's verify mode has PEER.
RequestsPeerCert == role = "connect" \/ "PEER" \in tls.val.verify_mode
\* The engine fails the handshake without a peer certificate.
RequiresPeerCert ==
    \/ role = "connect" /\ "PEER" \in tls.val.verify_mode
    \/ role = "accept" /\ {"PEER", "FAIL_IF_NO_PEER_CERT"} \subseteq tls.val.verify_mode

\* During the handshake step the engine, if it asks for the peer's certificate and the
\* peer holds one, validates the chain presented and invokes the context's verification
\* callback with its verdict.
EngineVerify(sans, verdict, chain) ==
    /\ pc = "handshaking"
    /\ ~cb.invoked
    /\ RequestsPeerCert
    /\ peer = Some([has_cert |-> TRUE, sans |-> sans, verdict |-> verdict])
    /\ LET verified == verdict = "OK"
           store_ctx == [error |-> verdict, chain |-> chain]
       IN cb' = [invoked |-> TRUE,
                 verifier |-> tls.val.verifier,
                 verified |-> verified,
                 store_ctx |-> store_ctx,
                 leaf |-> PeerLeaf(sans),
                 out |-> verify(tls.val.verifier, verified, store_ctx),
                 accepted |-> callback(tls.val.verifier, verified, store_ctx)]
    /\ UNCHANGED <<tasks, certs, timeVars, pc, role, dest, acceptor, tls, steps, stream, hs, result,
                   peer>>

\* The handshake step completes: it can succeed only if the transport held, the peer
\* presented a certificate where one is required, and the callback accepted it.
HandshakeFinish(transport_ok) ==
    /\ pc = "handshaking"
    /\ LET handshake_ok == /\ transport_ok
                           /\ RequiresPeerCert => cb.invoked
                           /\ (cb.invoked /\ "PEER" \in tls.val.verify_mode) => cb.accepted
       IN /\ hs' = IF handshake_ok THEN "ok" ELSE "failed"
          /\ result' = Some(IF role = "accept"
                            THEN accept_outcome(SslStream(TcpStream), handshake_ok)
                            ELSE connect_outcome(SslStream(TcpStream), handshake_ok))
          /\ stream' = IF IsOk(result'.val) THEN "returned"
                       ELSE IF StreamOf(result'.val.err).tag = "Some" THEN "error"
                       ELSE "dropped"
    /\ pc' = "done"
    /\ UNCHANGED <<tasks, certs, timeVars, role, dest, acceptor, tls, steps, cb, peer>>

\* The caller has its outcome; the next connection arrives.
NextConnection ==
    /\ pc = "done"
    /\ pc' = "idle"
    /\ role' = "none"
    /\ dest' = None
    /\ acceptor' = None
    /\ tls' = None
    /\ steps' = <<>>
    /\ stream' = "caller"
    /\ cb' = NoCallback
    /\ hs' = "unattempted"
    /\ result' = None
    /\ peer' = None
    /\ UNCHANGED <<tasks, certs, timeVars>>

Next ==
    \/ \E n \in 1..MaxChain : ReplaceCerts(n)
    \/ \E kind \in Providers : AcceptCall(kind)
    \/ \E ctx_ok, ssl_ok, wrap_ok \in BOOLEAN : AcceptPoll(ctx_ok, ssl_ok, wrap_ok)
    \/ \E dest_id \in DestIds, engine_ok \in BOOLEAN : Connector(dest_id, engine_ok)
    \/ \E ssl_ok, wrap_ok \in BOOLEAN : Connect(ssl_ok, wrap_ok)
    \/ \E sans \in SanLists, verdict \in Verdicts :
          \E chain \in StoreChains(PeerLeaf(sans)) : EngineVerify(sans, verdict, chain)
    \/ \E transport_ok \in BOOLEAN : HandshakeFinish(transport_ok)
    \/ NextConnection

Spec == Init /\ [][Next]_vars

----------------------------------------------------------------------------
(* The bundle's lifecycle under a moving clock *)

\* SystemTime::now() advances.
Tick ==
    /\ now < MaxTime
    /\ now' = now + 1
    /\ UNCHANGED <<tasks, certs, obs, connVars>>

\* The rotation scheduler polls the active bundle.
Poll ==
    /\ obs' = Append(IF Len(obs) = 2 THEN Tail(obs) ELSE obs,
                     [at |-> now,
                      is_expired |-> is_expired(certs),
                      refresh_at |-> refresh_at(certs),
                      duration_until_refresh |-> get_duration_until_refresh(certs)])
    /\ obs' # obs
    /\ UNCHANGED <<tasks, certs, now, connVars>>

\* mock::CertGenerator::new_certs: a bundle with the given sub-second validity window
GenerateTestCertsAt(not_before, not_after) ==
    /\ certs' = generate_test_certs_at(TestIdentity_Identity(IdA), not_before, not_after)
    /\ certs' # certs
    /\ obs' = <<>>
    /\ UNCHANGED <<tasks, now, connVars>>

\* The bundle is rebuilt from its own encoded certificates (cert_from).
Reload ==
    /\ certs' = cert_from(certs.key, certs.cert.x509,
                          [i \in 1..Len(certs.chain) |-> certs.chain[i].x509])
    /\ certs' # certs
    /\ obs' = <<>>
    /\ UNCHANGED <<tasks, now, connVars>>

NextTime ==
    \/ Tick
    \/ Poll
    \/ \E not_before, not_after \in 0..MaxTime : GenerateTestCertsAt(not_before, not_after)
    \/ Reload

SpecTime == Init /\ [][NextTime]_vars

----------------------------------------------------------------------------
(* Properties *)

\* The callback ran its SAN check on a leaf: policy San, verified chain, leaf present.
SanChecked ==
    /\ cb.invoked
    /\ cb.verifier.v = "San"
    /\ cb.verified
    /\ cb.store_ctx.chain = Some(<<cb.leaf>>)

Elements(seq) == {seq[i] : i \in 1..Len(seq)}

\* The URI SANs of a leaf that parse as an Identity, in order, each on its own.
RECURSIVE ParseableUriSans(_)
ParseableUriSans(sans) ==
    IF sans = <<>> THEN <<>>
    ELSE LET rest == ParseableUriSans(Tail(sans))
             s == Head(sans)
         IN IF s.kind = "uri" /\ IsOk(Identity_from_str(s.value))
            THEN <<Identity_from_str(s.value).val>> \o rest
            ELSE rest

\* C1: verify_san succeeds iff the required identity equals some member of the list
\* extracted from the leaf's URI SANs; when it fails the error is SanError(expected,
\* actual) with the required identity and the full extracted list.
C1_SanCheckResult ==
    SanChecked =>
        LET required == cb.verifier.identity
            extracted == extract_sans(cb.leaf)
        IN /\ IsOk(cb.out.res) <=> required \in Elements(extracted)
           /\ cb.accepted <=> required \in Elements(extracted)
           /\ IsErr(cb.out.res) =>
                 cb.out.res.err = [kind |-> "SanError", expected |-> required,
                                   actual |-> extracted]

\* C1 witness: the required identity is found behind another identity of the leaf.
C1_Witness ==
    /\ SanChecked
    /\ cb.verifier.identity = IdA
    /\ extract_sans(cb.leaf) = <<IdB, IdA>>
    /\ cb.accepted

\* C2: extract_sans returns exactly the URI SANs that parse as an Identity, in order;
\* an unparseable URI SAN is dropped on its own, so a required identity present among
\* the SANs still verifies.
C2_LenientExtraction ==
    SanChecked =>
        /\ extract_sans(cb.leaf) = ParseableUriSans(cb.leaf.sans)
        /\ cb.verifier.identity \in Elements(ParseableUriSans(cb.leaf.sans)) => cb.accepted

\* C3: when the engine reports the chain as not verified, verify fails with
\* Verification(engine reason) under either policy and the SAN check is not evaluated.
C3_ChainValidationFirst ==
    (cb.invoked /\ ~cb.verified) =>
        /\ cb.out.res = Err([kind |-> "Verification", reason |-> cb.store_ctx.error])
        /\ cb.out.evaluated = <<"base_verifier">>
        /\ ~cb.accepted
        /\ (pc = "done" /\ "PEER" \in tls.val.verify_mode) => IsErr(result.val)

\* C3 witness: an invalid chain whose leaf carries the required identity is rejected.
C3_Witness ==
    /\ cb.invoked
    /\ ~cb.verified
    /\ cb.verifier = VerifierSan(IdA)
    /\ cb.store_ctx.chain = Some(<<cb.leaf>>)
    /\ IdA \in Elements(extract_sans(cb.leaf))
    /\ ~cb.accepted
    /\ pc = "done"
    /\ IsErr(result.val)

\* The routine was handed the raw stream.
StreamHanded == stream # "caller"

\* C4: every failure after the raw stream was handed to accept or connect returns an
\* error that owns a stream handle: the unwrapped stream when the failure is before
\* wrapping, the wrapped stream when it is at or after wrapping; none drops the stream.
C4_StreamPreserved ==
    (pc = "done" /\ StreamHanded /\ IsErr(result.val)) =>
        LET owned == StreamOf(result.val.err)
            wrapping == \E i \in 1..Len(steps) : steps[i] = "SslStream::new"
        IN /\ owned.tag = "Some"
           /\ stream # "dropped"
           /\ ~wrapping => owned.val = TcpStream
           /\ wrapping => owned.val = SslStream(TcpStream)

----------------------------------------------------------------------------
(* Properties of the rotation arithmetic *)

NotBefore == certs.cert.not_before
NotAfter == certs.cert.not_after

\* Half of the validity window, zero for a zero or inverted window.
HalfWindow == IF NotAfter > NotBefore THEN (NotAfter - NotBefore) \div 2 ELSE 0

Polls == {obs[i] : i \in 1..Len(obs)}

\* Zero at every query time at or after not_before + halflife.
ZeroOncePastHalfLife ==
    \A o \in Polls : o.at >= NotBefore + HalfWindow => o.duration_until_refresh = 0

\* C6 as stated: for a fixed bundle get_duration_until_refresh never increases from one
\* query time to a later one, query times before not_before included, and it is zero at
\* every query time now >= not_before + halflife.
C6_MonotoneAtAllTimes ==
    /\ Len(obs) = 2 => obs[2].duration_until_refresh <= obs[1].duration_until_refresh
    /\ ZeroOncePastHalfLife

\* C6 as amended: for a fixed bundle get_duration_until_refresh never increases between
\* two query times that are both at or after not_before, or both before it (where it is
\* zero); it is zero at every query time now >= not_before + halflife.
C6_MonotoneFromNotBefore ==
    /\ (Len(obs) = 2 /\ (obs[1].at >= NotBefore \/ obs[2].at < NotBefore)) =>
          obs[2].duration_until_refresh <= obs[1].duration_until_refresh
    /\ ZeroOncePastHalfLife

\* C6 witness: two polls inside the window, the value falling to zero at the half-life.
C6_Witness ==
    /\ Len(obs) = 2
    /\ obs[1].at >= NotBefore
    /\ obs[1].duration_until_refresh > 0
    /\ obs[2].at = NotBefore + HalfWindow
    /\ obs[2].duration_until_refresh = 0

\* C7: get_duration_until_refresh is zero whenever now is earlier than not_before, by
\* any amount, and whenever the window is zero or inverted; it is never negative and
\* never larger than the half-life.
C7_AlreadyDueIsZero ==
    \A o \in Polls :
        /\ o.at < NotBefore => o.duration_until_refresh = 0
        /\ NotAfter <= NotBefore => o.duration_until_refresh = 0
        /\ o.duration_until_refresh >= 0
        /\ o.duration_until_refresh <= HalfWindow

\* C7 witness: a poll one tick before not_before, of a window with a positive half-life.
C7_Witness ==
    \E o \in Polls :
        /\ o.at = NotBefore - 1
        /\ HalfWindow > 1
        /\ o.duration_until_refresh = 0

\* C8: refresh_at is not_before + (not_after - not_before)/2 when not_after > not_before,
\* and not_after for a degenerate window.
C8_HalfLifeRule ==
    \A o \in Polls :
        /\ NotAfter > NotBefore => o.refresh_at = NotBefore + (NotAfter - NotBefore) \div 2
        /\ NotAfter <= NotBefore => o.refresh_at = NotAfter

\* C8 witness: a poll of a bundle whose window is inverted.
C8_Witness ==
    \E o \in Polls : NotAfter < NotBefore /\ o.refresh_at = NotAfter

\* C9: is_expired is true exactly when now > not_after, the full-precision not_after the
\* bundle stores and not the certificate's encoded time.
C9_ExpiryIsStrict ==
    \A o \in Polls : o.is_expired <=> o.at > NotAfter

\* C9 witness: a poll at now = not_after, past the encoded not_after, is not expired.
C9_Witness ==
    \E o \in Polls :
        /\ o.at = NotAfter
        /\ o.at > asn1_time_to_system_time(certs.cert.x509.not_after)
        /\ ~o.is_expired

----------------------------------------------------------------------------
(* Properties of the client context *)

\* No SAN entry of the leaf is the URI of the identity.
SansLack(leaf, identity) ==
    \A i \in 1..Len(leaf.sans) : leaf.sans[i] # UriSan(Identity_to_string(identity))

\* C10: the context built by connector(dest_id) has verify mode PEER with
\* FAIL_IF_NO_PEER_CERT; its policy is San(dest_id) iff dest_id is Some and the
\* no-identity policy otherwise; a connect succeeds only after the server presented a
\* chain that passed validation; with None a peer with a valid chain is accepted, with
\* Some(X) a valid chain whose SANs lack X is rejected.
C10_ClientVerification ==
    (role = "connect" /\ tls # None) =>
        /\ tls.val.verify_mode = {"PEER", "FAIL_IF_NO_PEER_CERT"}
        /\ dest.tag = "Some" => tls.val.verifier = VerifierSan(dest.val)
        /\ dest.tag = "None" => tls.val.verifier = VerifierNone
        /\ (cb.invoked /\ cb.verified /\ dest.tag = "None") => cb.accepted
        /\ (cb.invoked /\ cb.verified /\ dest.tag = "Some"
              /\ SansLack(cb.leaf, dest.val)) =>
                 /\ ~cb.accepted
                 /\ pc = "done" => IsErr(result.val)
        /\ (pc = "done" /\ IsOk(result.val)) => (cb.invoked /\ cb.verified)

\* C10 witness: pinned to IdC, the server's valid chain carries IdA only; the connect
\* fails on a SAN mismatch naming IdC and the list of IdA.
C10_Witness ==
    /\ role = "connect"
    /\ pc = "done"
    /\ dest = Some(IdC)
    /\ cb.invoked
    /\ cb.verified
    /\ cb.out.res = Err([kind |-> "SanError", expected |-> IdC, actual |-> <<IdA>>])
    /\ result.val = Err(HandshakeError_Connect(SslStream(TcpStream)))

----------------------------------------------------------------------------
(* Properties of the server contexts *)

\* The accept routine holds a context from the provider of the given kind.
ServerContext(kind) == role = "accept" /\ tls # None /\ acceptor.val.kind = kind

\* The handshake of the connection has ended and its peer is known.
HandshakeEnded == pc = "done" /\ peer # None

\* The mutual-TLS context: no certificate from the peer fails the handshake, and a
\* returned stream means the presented chain passed validation.
MtlsDemandsValidPeer ==
    ServerContext("Mtls") =>
        /\ tls.val.verify_mode = {"PEER", "FAIL_IF_NO_PEER_CERT"}
        /\ (HandshakeEnded /\ ~peer.val.has_cert) => IsErr(result.val)
        /\ (pc = "done" /\ IsOk(result.val)) => (cb.invoked /\ cb.verified)

\* C11 as stated: the mTLS server context fails the handshake when the peer presents no
\* certificate and validates any presented chain; the plain server context performs no
\* SAN check but still applies chain validation, so a peer whose chain fails validation
\* is rejected by the plain context as well.
C11_PlainValidatesChain ==
    /\ MtlsDemandsValidPeer
    /\ ServerContext("ControlPlane") =>
          /\ tls.val.verifier.v # "San"
          /\ (HandshakeEnded /\ peer.val.has_cert /\ peer.val.verdict # "OK") =>
                IsErr(result.val)

\* C11 as amended: the mTLS server context fails the handshake when the peer presents no
\* certificate and validates any presented chain; the plain server context has verify
\* mode NONE with the no-identity policy: it performs no SAN check, never asks for the
\* peer's certificate, and its callback is never invoked, so no chain validation is
\* applied to the peer.
C11_PlainIsAnonymous ==
    /\ MtlsDemandsValidPeer
    /\ ServerContext("ControlPlane") =>
          /\ tls.val.verify_mode = {}
          /\ tls.val.verifier = VerifierNone
          /\ ~cb.invoked
          /\ (pc = "done" /\ hs = "failed") => IsErr(result.val)

\* C11 witness: the plain context returns the stream to a peer whose chain would fail
\* validation.
C11_Witness ==
    /\ ServerContext("ControlPlane")
    /\ HandshakeEnded
    /\ peer.val.has_cert
    /\ peer.val.verdict = "CERT_HAS_EXPIRED"
    /\ ~cb.invoked
    /\ IsOk(result.val)

----------------------------------------------------------------------------
(* Properties of context setup *)

\* The encoded certificates of a bundle's chain, in order.
ChainX509(bundle) == [i \in 1..Len(bundle.chain) |-> bundle.chain[i].x509]

\* C12: for a bundle whose chain has n >= 1 entries, setup_ctx adds exactly the entries
\* at positions 0..n-2 as extra chain certificates, never the last entry, and adds every
\* one of the n entries, the root included, to the local trust store.
C12_ChainSplit ==
    tls # None =>
        LET sent == tls.val.extra_chain
            store == tls.val.cert_store
            n == Len(store)
        IN /\ n >= 1
           /\ role = "accept" => store = ChainX509(acceptor.val.certs)
           /\ role = "connect" => \E k \in 1..MaxChain : store = Chain(k)
           /\ store[n] = TEST_ROOT
           /\ sent = [i \in 1..(n - 1) |-> store[i]]
           /\ store[n] \notin Elements(sent)

\* C12 witness: a context built from a chain of two intermediates and the root.
C12_Witness ==
    /\ role = "accept"
    /\ tls # None
    /\ Len(acceptor.val.certs.chain) = 3
    /\ tls.val.cert_store = <<IntermediateCert(1), IntermediateCert(2), TEST_ROOT>>
    /\ tls.val.extra_chain = <<IntermediateCert(1), IntermediateCert(2)>>

----------------------------------------------------------------------------
(* Several accept futures in flight while the listener's bundle is replaced *)

\* The provider the listener holds: ControlPlaneCertProvider(certs)
ControlPlaneCertProvider(bundle) == [kind |-> "ControlPlane", certs |-> bundle]

\* a variant in which the future asks the listener's provider when it is polled
shared_provider(task, current) == current

\* The provider the async block uses: the clone that was moved into it.
captured_provider(task, current) == task.acceptor

\* accept(&self, conn): the provider is cloned and moved into the boxed future.
\* at_start records the bundle the listener's provider held at that moment.
TaskAccept(t) ==
    /\ tasks[t].pc = "idle"
    /\ tasks' = [tasks EXCEPT ![t] =
                    [pc |-> "accept_called",
                     acceptor |-> ControlPlaneCertProvider(certs),
                     at_start |-> certs,
                     tls |-> None,
                     result |-> None]]
    /\ UNCHANGED <<certs, now, obs, connVars>>

\* The future of task t runs up to its handshake await.
TaskPoll(t, ctx_ok, ssl_ok, wrap_ok) ==
    /\ tasks[t].pc = "accept_called"
    /\ LET provider == captured_provider(tasks[t], ControlPlaneCertProvider(certs))
           r == accept_future(provider, ctx_ok, ssl_ok, wrap_ok)
       IN tasks' = [tasks EXCEPT ![t] =
                       [pc |-> r.pc,
                        acceptor |-> tasks[t].acceptor,
                        at_start |-> tasks[t].at_start,
                        tls |-> r.tls,
                        result |-> r.result]]
    /\ UNCHANGED <<certs, now, obs, connVars>>

\* The handshake of task t completes.
TaskHandshake(t, handshake_ok) ==
    /\ tasks[t].pc = "handshaking"
    /\ tasks' = [tasks EXCEPT ![t] =
                    [pc |-> "done",
                     acceptor |-> tasks[t].acceptor,
                     at_start |-> tasks[t].at_start,
                     tls |-> tasks[t].tls,
                     result |-> Some(accept_outcome(SslStream(TcpStream), handshake_ok))]]
    /\ UNCHANGED <<certs, now, obs, connVars>>

\* The future of task t has resolved and is dropped, with its provider clone.
TaskDone(t) ==
    /\ tasks[t].pc = "done"
    /\ tasks' = [tasks EXCEPT ![t] = IdleTask]
    /\ UNCHANGED <<certs, now, obs, connVars>>

NextRotation ==
    \/ \E n \in 1..MaxChain : ReplaceCerts(n)
    \/ \E t \in Tasks : TaskAccept(t)
    \/ \E t \in Tasks : \E ctx_ok, ssl_ok, wrap_ok \in BOOLEAN :
          TaskPoll(t, ctx_ok, ssl_ok, wrap_ok)
    \/ \E t \in Tasks : \E handshake_ok \in BOOLEAN : TaskHandshake(t, handshake_ok)
    \/ \E t \in Tasks : TaskDone(t)

SpecRotation == Init /\ [][NextRotation]_vars

----------------------------------------------------------------------------
(* Properties of the accept routine's ordering *)

AcceptSteps == <<"fetch_cert", "Ssl::new", "SslStream::new", "handshake">>

IsPrefix(p, q) == Len(p) <= Len(q) /\ \A i \in 1..Len(p) : p[i] = q[i]

\* The step an error value of the accept routine comes from.
FailedStep(e) ==
    IF e.kind # "Handshake" THEN "fetch_cert"
    ELSE IF e.inner.variant = "Ssl" THEN "Ssl::new"
    ELSE IF e.inner.variant = "Create" THEN "SslStream::new"
    ELSE "handshake"

\* The accept routine's state: steps in order and at most once each, fetch_cert first,
\* the run ended by its first failure, one outcome once the run has ended.
AcceptOrdering ==
    role = "accept" =>
        /\ IsPrefix(steps, AcceptSteps)
        /\ pc = "accept_called" => steps = <<>>
        /\ pc \in {"handshaking", "done"} => (steps # <<>> /\ steps[1] = "fetch_cert")
        /\ pc = "handshaking" => steps = AcceptSteps
        /\ hs # "unattempted" => steps = AcceptSteps
        /\ result # None <=> pc = "done"
        /\ (pc = "done" /\ IsErr(result.val)) =>
              steps[Len(steps)] = FailedStep(result.val.err)
        /\ (pc = "done" /\ IsOk(result.val)) => steps = AcceptSteps

\* Once reported, the outcome and the steps attempted stay as they are until the next
\* connection.
OutcomeReportedOnce ==
    (role = "accept" /\ pc = "done" /\ pc' = "done") =>
        (result' = result /\ steps' = steps /\ hs' = hs)

\* C13: for each inbound connection the accept path invokes fetch_cert exactly once and
\* before session allocation and the handshake step; each of fetch_cert, session
\* allocation, wrapping and the handshake step is attempted at most once, the first
\* failure ends the run, and exactly one outcome is reported to the caller.
C13_AcceptOrderingNoRetry == []AcceptOrdering /\ [][OutcomeReportedOnce]_vars

\* C13 witness: session allocation fails after fetch_cert; wrapping and the handshake
\* step are not attempted and the error is the one outcome.
C13_Witness ==
    /\ role = "accept"
    /\ pc = "done"
    /\ steps = <<"fetch_cert", "Ssl::new">>
    /\ result = Some(Err(TlsError_Handshake(HandshakeError_Ssl(TcpStream))))
    /\ hs = "unattempted"

----------------------------------------------------------------------------
(* Properties of accept futures under rotation *)

InFlight(t) == tasks[t].pc # "idle"

\* The bundle and the context of every accept in flight are those of the bundle the
\* provider held when the accept started.
SnapshotHeld ==
    \A t \in Tasks :
        InFlight(t) =>
            /\ tasks[t].acceptor.certs = tasks[t].at_start
            /\ tasks[t].tls # None =>
                  tasks[t].tls = Some(acceptor_ctx(tasks[t].at_start, TRUE).val)

\* A step that leaves an accept in flight leaves its bundle alone, and its context once
\* it has one.
SnapshotKept ==
    \A t \in Tasks :
        (InFlight(t) /\ tasks'[t].pc # "idle") =>
            /\ tasks'[t].acceptor = tasks[t].acceptor
            /\ tasks'[t].at_start = tasks[t].at_start
            /\ tasks[t].tls # None => tasks'[t].tls = tasks[t].tls

\* C14: with several accept tasks interleaved with replacements of the provider's
\* bundle, each connection's context is built from the bundle the provider held when
\* that connection's accept started, and a later replacement never changes the bundle
\* or context of an accept already in flight.
C14_SnapshotIsolation == []SnapshotHeld /\ [][SnapshotKept]_vars

\* C14 witness: two accepts hold contexts of two different bundles, and the listener's
\* bundle has since been replaced by a third.
C14_Witness ==
    /\ \A t \in Tasks : tasks[t].pc = "handshaking"
    /\ \E t, u \in Tasks :
          /\ tasks[t].at_start # tasks[u].at_start
          /\ tasks[t].tls # tasks[u].tls
          /\ certs # tasks[t].at_start
          /\ certs # tasks[u].at_start

====
